---- MODULE Spec2Model ----
(***************************************************************************)
(* Model of gcs.PublishedStorage (src/gcs/public.go): a published-storage  *)
(* backend that maps filesystem-shaped calls onto an object-storage        *)
(* bucket, with a lazily built pathCache used by LinkFromPool.             *)
(*                                                                         *)
(* Strings of the program (paths, keys, checksums) are sequences of        *)
(* one-character strings, so that prefix tests, slicing and joining are    *)
(* computed and not assumed.  Errors are sequences of messages: a sentinel *)
(* error is a one-element sequence and wrapping prepends a message, so     *)
(* that Go's identity comparison (err == storage.ErrBucketNotExist) is     *)
(* equality of sequences and a wrapped sentinel differs from the sentinel. *)
(***************************************************************************)
EXTENDS Integers, Sequences, FiniteSets, TLC

VARIABLES
    bucketExists,   \* whether the bucket bucketName names exists
    prefix,         \* PublishedStorage.prefix
    store,          \* the bucket: object key -> [content, meta]
    pathCache,      \* PublishedStorage.pathCache: [built, m]; built = FALSE is nil
    last            \* the last call made on the instance and what it returned

vars == <<bucketExists, prefix, store, pathCache, last>>

----------------------------------------------------------------------------
(* Bounds *)

\* number of distinct file contents
NumContents == 2

Contents == 1..NumContents

----------------------------------------------------------------------------
(* Strings *)

EmptyStr == <<>>
Slash == "/"

\* byte values of the characters used, for the bucket's lexicographic key order
CharCode(c) ==
    CASE c = "/" -> 47
      [] c = "a" -> 97
      [] c = "l" -> 108
      [] c = "t" -> 116
      [] OTHER -> 0

HasPrefix(s, p) == Len(s) >= Len(p) /\ SubSeq(s, 1, Len(p)) = p

\* s[n:] of Go: the string without its first n characters
SliceFrom(s, n) == SubSeq(s, n + 1, Len(s))

RECURSIVE LexLess(_, _)
LexLess(a, b) ==
    IF a = <<>> THEN b # <<>>
    ELSE IF b = <<>> THEN FALSE
    ELSE IF Head(a) = Head(b) THEN LexLess(Tail(a), Tail(b))
    ELSE CharCode(Head(a)) < CharCode(Head(b))

MinKey(S) == CHOOSE k \in S : \A o \in S : o = k \/ LexLess(k, o)

RECURSIVE SortKeys(_)
SortKeys(S) ==
    IF S = {} THEN <<>>
    ELSE LET k == MinKey(S) IN <<k>> \o SortKeys(S \ {k})

\* filepath.Clean on paths without "." and ".." elements: repeated
\* separators collapse and a trailing separator is dropped
RECURSIVE CollapseSlashes(_)
CollapseSlashes(s) ==
    IF Len(s) <= 1 THEN s
    ELSE IF s[1] = Slash /\ s[2] = Slash THEN CollapseSlashes(Tail(s))
    ELSE <<s[1]>> \o CollapseSlashes(Tail(s))

Clean(s) ==
    LET c == CollapseSlashes(s)
    IN IF Len(c) > 1 /\ c[Len(c)] = Slash THEN SubSeq(c, 1, Len(c) - 1) ELSE c

RECURSIVE JoinRaw(_)
JoinRaw(elems) ==
    IF elems = <<>> THEN <<>>
    ELSE IF Head(elems) = EmptyStr THEN JoinRaw(Tail(elems))
    ELSE LET rest == JoinRaw(Tail(elems))
         IN IF rest = <<>> THEN Head(elems) ELSE Head(elems) \o <<Slash>> \o rest

\* filepath.Join: empty elements are ignored, the rest joined by "/" and
\* cleaned; the result is "" when every element is empty
Join(elems) == LET r == JoinRaw(elems) IN IF r = <<>> THEN EmptyStr ELSE Clean(r)

----------------------------------------------------------------------------
(* Checksums *)

HexDigits == <<"0", "1", "2", "3", "4", "5", "6", "7", "8", "9",
               "a", "b", "c", "d", "e", "f">>

\* hex.EncodeToString: two lowercase hex digits per byte
RECURSIVE HexEncodeToString(_)
HexEncodeToString(bytes) ==
    IF bytes = <<>> THEN <<>>
    ELSE <<HexDigits[(Head(bytes) \div 16) + 1], HexDigits[(Head(bytes) % 16) + 1]>>
         \o HexEncodeToString(Tail(bytes))

\* attrs.MD5 of an object holding content c: the digest bytes the bucket
\* reports (a one-byte stand-in for the 16-byte digest, injective on Contents)
MD5Sum(c) == <<(c * 37) % 256>>

----------------------------------------------------------------------------
(* Errors *)

Nil == <<>>
ErrBucketNotExist == <<"storage: bucket doesn't exist">>
ErrObjectNotExist == <<"storage: object doesn't exist">>
ErrTransport == <<"transport failure">>
ErrOpen == <<"open failed">>

\* errors.Wrap / errors.WithMessagef / fmt.Errorf("...%s", err): a new error
\* value that carries the cause
Wrap(err, msg) == <<msg>> \o err

----------------------------------------------------------------------------
(* Maps *)

EmptyMap == <<>>

MapPut(m, k, v) == [x \in (DOMAIN m) \cup {k} |-> IF x = k THEN v ELSE m[x]]

MapRestrict(m, D) == IF D = {} THEN EmptyMap ELSE [x \in D |-> m[x]]

MapDelete(m, k) == MapRestrict(m, (DOMAIN m) \ {k})

----------------------------------------------------------------------------
(* Inputs *)

P_ta == <<"t", "a">>
P_t == <<"t">>
P_t_a == <<"t", "/", "a">>
P_t_slash == <<"t", "/">>
P_l == <<"l">>
P_l_t_a == <<"l", "/", "t", "/", "a">>

\* values of the configured storage prefix
Prefixes == {EmptyStr, P_l}

\* paths of files handed to the file operations
FilePaths == {P_ta, P_t_a, P_l_t_a}

\* paths handed to RemoveDirs and Filelist
DirPaths == {EmptyStr, P_t, P_t_slash, P_l}

\* (publishedDirectory, fileName) pairs handed to LinkFromPool
LinkDests == {<<EmptyStr, P_ta>>, <<P_t, <<"a">>>>}

\* a sourcePath of the pool is the content stored there; 0 is a path the
\* pool (or the local filesystem, for PutFile) cannot open
NoSource == 0
SourcePaths == Contents \cup {NoSource}

\* the files of the pool: (sourcePath, sourceChecksums.MD5) as LinkFromPool
\* is handed them. The pool is content-addressed, so the checksum declared
\* for a file is the digest of its content, or is missing; the last pair
\* is a path the pool cannot open
PoolFiles ==
    {<<c, HexEncodeToString(MD5Sum(c))>> : c \in Contents}
    \cup {<<c, EmptyStr>> : c \in Contents}
    \cup {<<NoSource, HexEncodeToString(MD5Sum(1))>>}

----------------------------------------------------------------------------
(* The storage client (cloud.google.com/go/storage), as the code uses it *)

NewObject(c) == [content |-> c, meta |-> EmptyMap]

\* Object(key).NewWriter + io.Copy + Close: create or replace the object
ClientWrite(st, key, c, fail) ==
    IF ~bucketExists \/ fail THEN [err |-> ErrTransport, store |-> st]
    ELSE [err |-> Nil, store |-> MapPut(st, key, NewObject(c))]

\* Object(key).Delete: missingErr is what the client reports for a bucket
\* that does not exist
ClientDelete(st, key, fail, missingErr) ==
    IF ~bucketExists THEN [err |-> missingErr, store |-> st]
    ELSE IF fail THEN [err |-> ErrTransport, store |-> st]
    ELSE IF key \notin DOMAIN st THEN [err |-> ErrObjectNotExist, store |-> st]
    ELSE [err |-> Nil, store |-> MapDelete(st, key)]

\* dst.CopierFrom(src).Run: server-side copy of content and metadata
ClientCopy(st, src, dst, fail) ==
    IF ~bucketExists \/ src \notin DOMAIN st THEN [err |-> ErrObjectNotExist, store |-> st]
    ELSE IF fail THEN [err |-> ErrTransport, store |-> st]
    ELSE [err |-> Nil, store |-> MapPut(st, dst, st[src])]

\* Object(key).Update(ObjectAttrsToUpdate{Metadata: {name: value}})
ClientUpdateMetadata(st, key, name, value, fail) ==
    IF ~bucketExists \/ key \notin DOMAIN st THEN [err |-> ErrObjectNotExist, store |-> st]
    ELSE IF fail THEN [err |-> ErrTransport, store |-> st]
    ELSE [err |-> Nil,
          store |-> [st EXCEPT ![key].meta = MapPut(st[key].meta, name, value)]]

\* Bucket.Objects(Query{Prefix: p}) iterated to iterator.Done: the objects
\* whose name starts with p, in the bucket's lexicographic key order
ClientList(st, p, fail) ==
    IF ~bucketExists THEN [err |-> ErrBucketNotExist, names |-> <<>>]
    ELSE IF fail THEN [err |-> ErrTransport, names |-> <<>>]
    ELSE [err |-> Nil, names |-> SortKeys({k \in DOMAIN st : HasPrefix(k, p)})]

\* attrs: Object(path).Attrs
Attrs(st, key, fail) ==
    IF ~bucketExists \/ key \notin DOMAIN st THEN [err |-> ErrObjectNotExist, attrs |-> NewObject(0)]
    ELSE IF fail THEN [err |-> ErrTransport, attrs |-> NewObject(0)]
    ELSE [err |-> Nil, attrs |-> st[key]]

----------------------------------------------------------------------------
(* Helpers of PublishedStorage *)

\* key := filepath.Join(publishedStorage.prefix, path)
KeyOf(path) == Join(<<prefix, path>>)

\* putFile
PutFileInternal(st, path, c, fail) == ClientWrite(st, KeyOf(path), c, fail)

\* Remove: a 'no such bucket' error is ignored, any other is wrapped
RemoveErr(err) ==
    IF err = Nil THEN Nil
    ELSE IF err = ErrBucketNotExist THEN Nil
    ELSE Wrap(err, "error deleting")

RemoveInternal(st, path, fail, missingErr) ==
    LET d == ClientDelete(st, KeyOf(path), fail, missingErr)
    IN [err |-> RemoveErr(d.err), clientErr |-> d.err, store |-> d.store]

\* (mutant of ListPrefix) the separator is not appended to the prefix
ListPrefixNoSeparator(q) == Join(<<prefix, q>>)

\* internalFilelist: the prefix handed to the listing query
ListPrefix(q) ==
    LET p == Join(<<prefix, q>>)
    IN IF p # EmptyStr THEN p \o <<Slash>> ELSE p

\* internalFilelist: the path reported for an object name
StripPrefix(name, p) == IF p = EmptyStr THEN name ELSE SliceFrom(name, Len(p))

\* internalFilelist: a listing error is returned with a message added
ListErr(err) == IF err = Nil THEN Nil ELSE Wrap(err, "error listing under prefix")

InternalFilelist(st, q, fail) ==
    LET p == ListPrefix(q)
        l == ClientList(st, p, fail)
    IN IF l.err # Nil
       THEN [err |-> ListErr(l.err), clientErr |-> l.err, paths |-> <<>>, md5s |-> <<>>]
       ELSE [err |-> Nil, clientErr |-> Nil,
             paths |-> [i \in 1..Len(l.names) |-> StripPrefix(l.names[i], p)],
             md5s |-> [i \in 1..Len(l.names) |->
                          HexEncodeToString(MD5Sum(st[l.names[i]].content))]]

----------------------------------------------------------------------------
(* State *)

NilCache == [built |-> FALSE, m |-> EmptyMap]

\* a call: its arguments (path, path2, and for LinkFromPool the record io),
\* the error and result it returned, the step it ended at (note) and, for
\* the calls that rewrite objects, the bucket as the call found it (pre)
NoCall ==
    [op |-> "none", path |-> EmptyStr, path2 |-> EmptyStr, err |-> Nil,
     note |-> "", result |-> <<>>, pre |-> EmptyMap, io |-> <<>>]

Init ==
    /\ bucketExists \in BOOLEAN
    /\ prefix \in Prefixes
    /\ store = EmptyMap
    /\ pathCache = NilCache
    /\ last = NoCall

----------------------------------------------------------------------------
(* Operations: what each call returns and leaves behind *)

\* PutFile(path, sourceFilename): source is the content of the local file
PutFileResult(st, path, source, fault) ==
    IF source = NoSource THEN [err |-> ErrOpen, store |-> st]
    ELSE LET w == PutFileInternal(st, path, source, fault = "put")
         IN [err |-> IF w.err = Nil THEN Nil ELSE Wrap(w.err, "error uploading"),
             store |-> w.store]

\* RemoveDirs: the deletions of the listed files, in order; the failAt-th
\* deletion (0: none) meets a transport failure
RECURSIVE RemoveEach(_, _, _, _, _)
RemoveEach(st, path, filelist, i, failAt) ==
    IF i > Len(filelist) THEN [err |-> Nil, store |-> st]
    ELSE LET r == RemoveInternal(st, Join(<<prefix, path, filelist[i]>>),
                                 i = failAt, ErrBucketNotExist)
         IN IF r.err # Nil
            THEN [err |-> Wrap(r.err, "error deleting path"), store |-> r.store]
            ELSE RemoveEach(r.store, path, filelist, i + 1, failAt)

\* RemoveDirs: what a failed listing returns
RemoveDirsListErr(err) == IF err = ErrBucketNotExist THEN Nil ELSE err

\* RemoveDirs(path, progress)
RemoveDirsResult(st, path, fault) ==
    LET l == InternalFilelist(st, path, fault = "list")
        failAt == CASE fault = "delete1" -> 1 [] fault = "delete2" -> 2 [] OTHER -> 0
    IN IF l.err # Nil
       THEN [err |-> RemoveDirsListErr(l.err), clientErr |-> l.clientErr,
             store |-> st, paths |-> <<>>]
       ELSE LET r == RemoveEach(st, path, l.paths, 1, failAt)
            IN [err |-> r.err, clientErr |-> Nil, store |-> r.store, paths |-> l.paths]

\* LinkFromPool: the cache built from a listing of everything under prefix
BuildCache(paths, md5s) ==
    LET P == {paths[i] : i \in 1..Len(paths)}
    IN [built |-> TRUE,
        m |-> MapRestrict([p \in P |-> md5s[CHOOSE i \in 1..Len(paths) : paths[i] = p]], P)]

\* (mutant of LinkDecision) force skips the check for a missing checksum
LinkDecisionForceFirst(exists, destinationMD5, sourceMD5, force) ==
    IF exists /\ ~force
    THEN IF sourceMD5 = EmptyStr THEN "md5missing"
         ELSE IF destinationMD5 = sourceMD5 THEN "present"
         ELSE "conflict"
    ELSE IF exists /\ destinationMD5 = sourceMD5 /\ sourceMD5 # EmptyStr THEN "present"
    ELSE "upload"

\* LinkFromPool: what to do for a destination, given its cache entry
LinkDecision(exists, destinationMD5, sourceMD5, force) ==
    IF exists
    THEN IF sourceMD5 = EmptyStr THEN "md5missing"
         ELSE IF destinationMD5 = sourceMD5 THEN "present"
         ELSE IF ~force /\ destinationMD5 # sourceMD5 THEN "conflict"
         ELSE "upload"
    ELSE "upload"

\* LinkFromPool: the cache after a successful upload of relPath
CacheAfterUpload(cache, relPath, sourceMD5) ==
    [cache EXCEPT !.m = MapPut(cache.m, relPath, sourceMD5)]

\* LinkFromPool, from the lookup on: cache is pathCache as the lookup of
\* relPath finds it, d the decision taken; uploads and opens count the calls
\* of putFile and sourcePool.Open
LinkOutcome(st, cache, relPath, d, sourcePath, sourceMD5, fault) ==
    LET r == [err |-> Nil, store |-> st, cache |-> cache, lookup |-> cache,
              decision |-> d, uploads |-> 0, opens |-> 0]
    IN CASE d = "md5missing" ->
              [r EXCEPT !.err = <<"unable to compare object, MD5 checksum missing">>]
         [] d = "present" -> r
         [] d = "conflict" ->
              [r EXCEPT !.err = <<"file already exists and is different">>]
         [] OTHER ->
              IF sourcePath = NoSource
              THEN [r EXCEPT !.err = ErrOpen, !.opens = 1]
              ELSE LET w == PutFileInternal(st, relPath, sourcePath, fault = "put")
                   IN IF w.err = Nil
                      THEN [r EXCEPT !.store = w.store, !.opens = 1, !.uploads = 1,
                               !.cache = CacheAfterUpload(cache, relPath, sourceMD5)]
                      ELSE [r EXCEPT !.err = Wrap(w.err, "error uploading"),
                               !.opens = 1, !.uploads = 1]

\* LinkFromPool: destinationMD5, exists := pathCache[relPath]
CacheLookup(cache, relPath) ==
    IF relPath \in DOMAIN cache.m
    THEN [exists |-> TRUE, destinationMD5 |-> cache.m[relPath]]
    ELSE [exists |-> FALSE, destinationMD5 |-> EmptyStr]

\* LinkFromPool with pathCache non-nil
LinkWithCache(st, cache, e, relPath, sourcePath, sourceMD5, force, fault) ==
    LinkOutcome(st, cache, relPath,
                LinkDecision(e.exists, e.destinationMD5, sourceMD5, force),
                sourcePath, sourceMD5, fault)

\* LinkFromPool with pathCache nil: l is what internalFilelist("") returned
LinkAfterListing(st, pc, l, relPath, sourcePath, sourceMD5, force, fault) ==
    IF l.err # Nil
    THEN [err |-> Wrap(l.err, "error caching paths under prefix"), store |-> st,
          cache |-> pc, lookup |-> pc, decision |-> "listfailed",
          uploads |-> 0, opens |-> 0]
    ELSE LinkWithCache(st, BuildCache(l.paths, l.md5s),
                       CacheLookup(BuildCache(l.paths, l.md5s), relPath),
                       relPath, sourcePath, sourceMD5, force, fault)

\* LinkFromPool(publishedDirectory, fileName, sourcePool, sourcePath,
\*              sourceChecksums, force)
LinkFromPoolResult(st, pc, relPath, sourcePath, sourceMD5, force, fault) ==
    IF pc.built
    THEN LinkWithCache(st, pc, CacheLookup(pc, relPath),
                       relPath, sourcePath, sourceMD5, force, fault)
    ELSE LinkAfterListing(st, pc, InternalFilelist(st, EmptyStr, fault = "list"),
                          relPath, sourcePath, sourceMD5, force, fault)

\* (mutant of RenameSteps) the source is never deleted
RenameStepsKeepSource(st, sourcePath, destPath, fault) ==
    LET c == ClientCopy(st, sourcePath, destPath, fault = "copy")
    IN IF c.err # Nil THEN [err |-> c.err, store |-> c.store, stage |-> "copy"]
       ELSE IF fault = "delete"
            THEN [err |-> ErrTransport, store |-> c.store, stage |-> "delete"]
            ELSE [err |-> Nil, store |-> c.store, stage |-> "done"]

\* (mutant of RenameSteps) a failed delete is compensated by deleting the copy
RenameStepsRollback(st, sourcePath, destPath, fault) ==
    LET c == ClientCopy(st, sourcePath, destPath, fault = "copy")
    IN IF c.err # Nil THEN [err |-> c.err, store |-> c.store, stage |-> "copy"]
       ELSE LET d == ClientDelete(c.store, sourcePath, fault = "delete", ErrObjectNotExist)
            IN IF d.err # Nil
               THEN [err |-> d.err, store |-> MapDelete(d.store, destPath), stage |-> "delete"]
               ELSE [err |-> Nil, store |-> d.store, stage |-> "done"]

\* RenameFile: copy, then delete the source
RenameSteps(st, sourcePath, destPath, fault) ==
    LET c == ClientCopy(st, sourcePath, destPath, fault = "copy")
    IN IF c.err # Nil THEN [err |-> c.err, store |-> c.store, stage |-> "copy"]
       ELSE LET d == ClientDelete(c.store, sourcePath, fault = "delete", ErrObjectNotExist)
            IN IF d.err # Nil THEN [err |-> d.err, store |-> d.store, stage |-> "delete"]
               ELSE [err |-> Nil, store |-> d.store, stage |-> "done"]

\* RenameFile(oldName, newName)
RenameFileResult(st, oldName, newName, fault) ==
    RenameSteps(st, KeyOf(oldName), KeyOf(newName), fault)

\* (mutant of LinkMetadataValue) the link names the path, not the key
LinkMetadataValueUnmapped(src) == src

\* SymLink: the metadata value attached to the destination
LinkMetadataValue(src) == KeyOf(src)

\* SymLink(src, dst): copy, then tag the destination with the source key
SymLinkResult(st, src, dst, fault) ==
    LET c == ClientCopy(st, KeyOf(src), KeyOf(dst), fault = "copy")
    IN IF c.err # Nil THEN [err |-> Wrap(c.err, "error symlinking"), store |-> c.store]
       ELSE LET u == ClientUpdateMetadata(c.store, KeyOf(dst), "SymLink",
                                          LinkMetadataValue(src), fault = "update")
            IN IF u.err # Nil THEN [err |-> Wrap(u.err, "error symlinking"), store |-> u.store]
               ELSE [err |-> Nil, store |-> u.store]

\* HardLink(src, dst)
HardLinkResult(st, src, dst, fault) == SymLinkResult(st, src, dst, fault)

\* ReadLink(path)
ReadLinkResult(st, path, fault) ==
    LET a == Attrs(st, KeyOf(path), fault = "attrs")
    IN IF a.err # Nil THEN [link |-> EmptyStr, err |-> a.err]
       ELSE IF "SymLink" \in DOMAIN a.attrs.meta
            THEN [link |-> a.attrs.meta["SymLink"], err |-> Nil]
            ELSE [link |-> EmptyStr, err |-> <<"error getting information about">>]

----------------------------------------------------------------------------
(* Actions: one per call on the instance *)

Called(op, path, path2, err, note) ==
    [NoCall EXCEPT !.op = op, !.path = path, !.path2 = path2, !.err = err, !.note = note]

PutFile(path, source, fault) ==
    LET r == PutFileResult(store, path, source, fault)
    IN /\ store' = r.store
       /\ last' = Called("PutFile", path, EmptyStr, r.err, "")
       /\ UNCHANGED <<bucketExists, prefix, pathCache>>

Remove(path, fault, missingErr) ==
    LET r == RemoveInternal(store, path, fault = "delete", missingErr)
    IN /\ bucketExists => missingErr = ErrBucketNotExist
       /\ store' = r.store
       /\ last' = Called("Remove", path, EmptyStr, r.err,
                         IF r.clientErr = ErrBucketNotExist THEN "nobucket" ELSE "")
       /\ UNCHANGED <<bucketExists, prefix, pathCache>>

RemoveDirs(path, fault) ==
    LET r == RemoveDirsResult(store, path, fault)
    IN /\ store' = r.store
       /\ last' = [Called("RemoveDirs", path, EmptyStr, r.err,
                          IF r.clientErr = ErrBucketNotExist THEN "nobucket" ELSE "")
                      EXCEPT !.result = r.paths, !.pre = store]
       /\ UNCHANGED <<bucketExists, prefix, pathCache>>

\* what a LinkFromPool call that returned r leaves behind
LinkFromPoolReturns(relPath, sourcePath, sourceMD5, force, r) ==
    /\ store' = r.store
    /\ pathCache' = r.cache
    /\ last' = [Called("LinkFromPool", relPath, EmptyStr, r.err, r.decision)
                   EXCEPT !.pre = store,
                          !.io = [sourcePath |-> sourcePath, sourceMD5 |-> sourceMD5,
                                  force |-> force, uploads |-> r.uploads,
                                  opens |-> r.opens, preCache |-> pathCache,
                                  lookup |-> r.lookup]]
    /\ UNCHANGED <<bucketExists, prefix>>

LinkFromPool(publishedDirectory, fileName, sourcePath, sourceMD5, force, fault) ==
    /\ fault = "list" => ~pathCache.built
    /\ LinkFromPoolReturns(Join(<<publishedDirectory, fileName>>), sourcePath, sourceMD5, force,
           LinkFromPoolResult(store, pathCache, Join(<<publishedDirectory, fileName>>),
                              sourcePath, sourceMD5, force, fault))

Filelist(q, fault) ==
    LET l == InternalFilelist(store, q, fault = "list")
    IN /\ last' = [Called("Filelist", q, EmptyStr, l.err, fault) EXCEPT !.result = l.paths]
       /\ UNCHANGED <<bucketExists, prefix, store, pathCache>>

RenameFile(oldName, newName, fault) ==
    LET r == RenameFileResult(store, oldName, newName, fault)
    IN /\ store' = r.store
       /\ last' = [Called("RenameFile", oldName, newName, r.err, r.stage)
                      EXCEPT !.pre = store]
       /\ UNCHANGED <<bucketExists, prefix, pathCache>>

SymLink(src, dst, fault) ==
    LET r == SymLinkResult(store, src, dst, fault)
    IN /\ store' = r.store
       /\ last' = [Called("SymLink", src, dst, r.err, "") EXCEPT !.pre = store]
       /\ UNCHANGED <<bucketExists, prefix, pathCache>>

HardLink(src, dst, fault) ==
    LET r == HardLinkResult(store, src, dst, fault)
    IN /\ store' = r.store
       /\ last' = [Called("HardLink", src, dst, r.err, "") EXCEPT !.pre = store]
       /\ UNCHANGED <<bucketExists, prefix, pathCache>>

ReadLink(path, fault) ==
    LET r == ReadLinkResult(store, path, fault)
    IN /\ last' = [Called("ReadLink", path, EmptyStr, r.err, "") EXCEPT !.result = r.link]
       /\ UNCHANGED <<bucketExists, prefix, store, pathCache>>

\* the caller resets pathCache to nil to force a rebuild
ResetCache ==
    /\ pathCache.built
    /\ pathCache' = NilCache
    /\ last' = Called("ResetCache", EmptyStr, EmptyStr, Nil, "")
    /\ UNCHANGED <<bucketExists, prefix, store>>

----------------------------------------------------------------------------
(* Inputs of the calls *)

\* what Object.Delete may report for a bucket that does not exist
MissingBucketErrs == {ErrBucketNotExist, ErrObjectNotExist}

PutFaults == {"none", "put"}
RemoveFaults == {"none", "delete"}
RemoveDirsFaults == {"none", "list", "delete1", "delete2"}
LinkFaults == {"none", "list", "put"}
ListFaults == {"none", "list"}
RenameFaults == {"none", "copy", "delete"}
SymLinkFaults == {"none", "copy", "update"}
ReadLinkFaults == {"none", "attrs"}

\* the paths LinkFromPool publishes to
LinkPaths == {Join(<<d[1], d[2]>>) : d \in LinkDests}

----------------------------------------------------------------------------
(* Specifications *)

\* linking from the pool, among the writes and deletions of the same paths
NextLink ==
    \/ \E path \in LinkPaths, source \in SourcePaths, fault \in PutFaults :
          PutFile(path, source, fault)
    \/ \E path \in LinkPaths, fault \in RemoveFaults, missingErr \in MissingBucketErrs :
          Remove(path, fault, missingErr)
    \/ \E dest \in LinkDests, file \in PoolFiles, force \in BOOLEAN, fault \in LinkFaults :
          LinkFromPool(dest[1], dest[2], file[1], file[2], force, fault)
    \/ \E oldName \in LinkPaths, newName \in LinkPaths, fault \in RenameFaults :
          RenameFile(oldName, newName, fault)
    \/ ResetCache

SpecLink == Init /\ [][NextLink]_vars

\* listing and deleting directories
NextDirs ==
    \/ \E path \in FilePaths, source \in SourcePaths, fault \in PutFaults :
          PutFile(path, source, fault)
    \/ \E path \in FilePaths, fault \in RemoveFaults, missingErr \in MissingBucketErrs :
          Remove(path, fault, missingErr)
    \/ \E path \in DirPaths, fault \in RemoveDirsFaults : RemoveDirs(path, fault)
    \/ \E q \in DirPaths, fault \in ListFaults : Filelist(q, fault)

SpecDirs == Init /\ [][NextDirs]_vars

\* renaming and linking files
NextFiles ==
    \/ \E path \in LinkPaths, source \in SourcePaths, fault \in PutFaults :
          PutFile(path, source, fault)
    \/ \E oldName \in LinkPaths, newName \in LinkPaths, fault \in RenameFaults :
          RenameFile(oldName, newName, fault)
    \/ \E src \in LinkPaths, dst \in LinkPaths, fault \in SymLinkFaults :
          SymLink(src, dst, fault)
    \/ \E src \in LinkPaths, dst \in LinkPaths, fault \in SymLinkFaults :
          HardLink(src, dst, fault)
    \/ \E path \in LinkPaths, fault \in ReadLinkFaults : ReadLink(path, fault)

SpecFiles == Init /\ [][NextFiles]_vars

----------------------------------------------------------------------------
(* Vocabulary of the properties *)

\* key k lies under the directory key dir (every key lies under "")
Under(k, dir) == dir = EmptyStr \/ HasPrefix(k, dir \o <<Slash>>)

\* key k relative to the directory key dir
RelTo(k, dir) == IF dir = EmptyStr THEN k ELSE SliceFrom(k, Len(dir) + 1)

\* the content hash of the object at key k, as lowercase hex
HashAt(st, k) == HexEncodeToString(MD5Sum(st[k].content))

Elems(seq) == {seq[i] : i \in 1..Len(seq)}

\* the last call was a LinkFromPool that got past its listing
Linked == last.op = "LinkFromPool" /\ last.note # "listfailed"

----------------------------------------------------------------------------
(* C1 *)

\* C1: whenever pathCache is non-nil it maps exactly the relative paths of
\* the objects stored under the storage prefix, each to the content hash of
\* that object: no entry for a deleted object, no missing or outdated entry
\* for a written one.
C1_CacheMatchesStore ==
    pathCache.built =>
        LET objs == {k \in DOMAIN store : Under(k, prefix)}
        IN /\ DOMAIN pathCache.m = {RelTo(k, prefix) : k \in objs}
           /\ \A k \in objs :
                 /\ RelTo(k, prefix) \in DOMAIN pathCache.m
                 /\ pathCache.m[RelTo(k, prefix)] = HashAt(store, k)

----------------------------------------------------------------------------
(* C2 *)

\* C2: for every storage prefix and every path, a RemoveDirs(path) that
\* returned success has deleted exactly the objects whose key lies under
\* join(prefix, path) and has left every other object unchanged.
C2_RemoveDirsDeletesExactly ==
    (last.op = "RemoveDirs" /\ last.err = Nil) =>
        store = MapRestrict(last.pre,
                    {k \in DOMAIN last.pre : ~Under(k, Join(<<prefix, last.path>>))})

----------------------------------------------------------------------------
(* C3 *)

\* C3: whenever the storage client reports the bucket-does-not-exist error
\* (the call's note is "nobucket"), Remove returns nil, and RemoveDirs
\* returns nil when its listing fails with that error.
C3_MissingBucketIsSuccess ==
    (last.op \in {"Remove", "RemoveDirs"} /\ last.note = "nobucket") => last.err = Nil

----------------------------------------------------------------------------
(* C4 *)

\* C4: after any sequence of calls, a LinkFromPool call whose destination
\* object was present in the store with a content hash equal to the
\* source's declared, non-empty MD5 returned success without opening the
\* pool and without writing an object, whether the path cache was built
\* already or was built by this call.
C4_PresentDestinationIsNotUploaded ==
    LET key == KeyOf(last.path)
    IN (/\ Linked
        /\ last.io.sourceMD5 # EmptyStr
        /\ key \in DOMAIN last.pre
        /\ HashAt(last.pre, key) = last.io.sourceMD5)
       => /\ last.err = Nil
          /\ last.io.uploads = 0
          /\ last.io.opens = 0
          /\ store = last.pre

----------------------------------------------------------------------------
(* C5 *)

\* C5: after a LinkFromPool call against a destination object that existed
\* with a content hash different from the source's non-empty MD5: with
\* force=false the call returned the conflict error and left the
\* destination object and the path cache (as the call's lookup found it)
\* unchanged; with force=true, when it returned success, the destination
\* holds the source's content and the cache entry of the destination is the
\* source's MD5.
C5_ConflictOrForcedOverwrite ==
    LET key == KeyOf(last.path)
    IN (/\ Linked
        /\ last.io.sourceMD5 # EmptyStr
        /\ key \in DOMAIN last.pre
        /\ HashAt(last.pre, key) # last.io.sourceMD5)
       => /\ ~last.io.force =>
                /\ last.note = "conflict"
                /\ last.err # Nil
                /\ last.io.uploads = 0
                /\ key \in DOMAIN store
                /\ store[key] = last.pre[key]
                /\ pathCache = last.io.lookup
          /\ (last.io.force /\ last.err = Nil) =>
                /\ key \in DOMAIN store
                /\ store[key].content = last.io.sourcePath
                /\ last.path \in DOMAIN pathCache.m
                /\ pathCache.m[last.path] = last.io.sourceMD5

----------------------------------------------------------------------------
(* C6 *)

\* C6: for both values of force, a LinkFromPool call whose source checksum
\* is empty and whose destination had an entry in the path cache returned
\* an error, opened no source, uploaded nothing and changed neither the
\* store nor the path cache (a cache that this call had to build stays as
\* built); an entry recorded by an earlier LinkFromPool with an empty
\* checksum is such an entry.
C6_EmptyChecksumOnExistingEntryFails ==
    (/\ Linked
     /\ last.io.sourceMD5 = EmptyStr
     /\ last.io.lookup.built
     /\ last.path \in DOMAIN last.io.lookup.m)
    => /\ last.err # Nil
       /\ last.io.uploads = 0
       /\ last.io.opens = 0
       /\ store = last.pre
       /\ pathCache = last.io.lookup
       /\ last.io.preCache.built => pathCache = last.io.preCache

\* a forced LinkFromPool call has just failed for a missing checksum on an
\* entry that an earlier LinkFromPool recorded with an empty checksum
C6_Witness ==
    /\ Linked
    /\ last.note = "md5missing"
    /\ last.err # Nil
    /\ last.io.force
    /\ last.io.sourceMD5 = EmptyStr
    /\ last.io.preCache.built
    /\ last.path \in DOMAIN last.io.preCache.m
    /\ last.io.preCache.m[last.path] = EmptyStr

----------------------------------------------------------------------------
(* C7 *)

\* what Filelist(q) must return for the store st: one entry per object
\* under join(prefix, q), the key without the leading directory
ExactListing(paths, st, q) ==
    LET dir == Join(<<prefix, q>>)
        M == {k \in DOMAIN st : Under(k, dir)}
    IN /\ Len(paths) = Cardinality(M)
       /\ Elems(paths) = {RelTo(k, dir) : k \in M}
       /\ \A k \in M : Cardinality({i \in 1..Len(paths) : paths[i] = RelTo(k, dir)}) = 1
       /\ M = {} => paths = <<>>

\* C7: for every storage prefix and query prefix q, Filelist(q) returns
\* exactly one entry per object whose key starts with join(prefix, q) + "/"
\* (the whole bucket when the join is empty), the key with that leading
\* string stripped, and no other entry; when nothing matches it returns an
\* empty sequence and no error.
C7_FilelistIsExact ==
    last.op = "Filelist" =>
        /\ (last.note = "none" /\ bucketExists) => last.err = Nil
        /\ last.err = Nil => ExactListing(last.result, store, last.path)

\* Filelist("t") has just returned "a" alone from a bucket that holds both
\* "t/a" and "ta"
C7_Witness ==
    /\ last.op = "Filelist"
    /\ last.err = Nil
    /\ last.path = P_t
    /\ prefix = EmptyStr
    /\ P_ta \in DOMAIN store
    /\ P_t_a \in DOMAIN store
    /\ last.result = <<<<"a">>>>

----------------------------------------------------------------------------
(* C8 *)

\* after a successful RenameFile(a, b): a's key is gone and b's key holds
\* the content a had
Renamed ==
    /\ KeyOf(last.path) \notin DOMAIN store
    /\ KeyOf(last.path2) \in DOMAIN store
    /\ store[KeyOf(last.path2)].content = last.pre[KeyOf(last.path)].content

\* C8 as stated: for all paths a and b, b equal to a included, when
\* RenameFile(a, b) returns success the object at a's key no longer exists
\* and the object at b's key holds the content a had before the call.
C8_RenameMovesContent ==
    (last.op = "RenameFile" /\ last.err = Nil) => Renamed

\* C8 as amended: the same for paths a and b that map to different keys
\* (b may name an object that exists already).
C8_RenameMovesContentDistinct ==
    (last.op = "RenameFile" /\ last.err = Nil /\ KeyOf(last.path) # KeyOf(last.path2))
        => Renamed

\* a RenameFile onto another, existing object has just succeeded
C8_Witness ==
    /\ last.op = "RenameFile"
    /\ last.err = Nil
    /\ KeyOf(last.path) # KeyOf(last.path2)
    /\ KeyOf(last.path2) \in DOMAIN last.pre
    /\ last.pre[KeyOf(last.path2)].content # last.pre[KeyOf(last.path)].content
    /\ Renamed

----------------------------------------------------------------------------
(* C9 *)

\* C9: for every storage prefix, after a successful SymLink(a, b) or
\* HardLink(a, b) the object at b's key has the content a had and carries
\* metadata SymLink = join(prefix, a), so that a following ReadLink(b)
\* returns join(prefix, a); ReadLink of an object without that metadata, or
\* of a missing object, returns an error.
C9_LinkThenReadLink ==
    /\ (last.op \in {"SymLink", "HardLink"} /\ last.err = Nil) =>
          LET dst == KeyOf(last.path2)
              link == Join(<<prefix, last.path>>)
          IN /\ dst \in DOMAIN store
             /\ store[dst].content = last.pre[KeyOf(last.path)].content
             /\ "SymLink" \in DOMAIN store[dst].meta
             /\ store[dst].meta["SymLink"] = link
             /\ ReadLinkResult(store, last.path2, "none") = [link |-> link, err |-> Nil]
    /\ last.op = "ReadLink" =>
          LET key == KeyOf(last.path)
          IN IF key \in DOMAIN store /\ "SymLink" \in DOMAIN store[key].meta
             THEN last.err = Nil => last.result = store[key].meta["SymLink"]
             ELSE last.err # Nil

\* under a non-empty storage prefix, ReadLink has just returned the mapped
\* key of the source of an earlier SymLink or HardLink
C9_Witness ==
    /\ last.op = "ReadLink"
    /\ last.err = Nil
    /\ prefix = P_l
    /\ \E a \in LinkPaths : a # last.path /\ last.result = Join(<<prefix, a>>)

----------------------------------------------------------------------------
(* C10 *)

\* C10: RenameFile copies before it deletes: when the copy fails the store
\* is unchanged (the source is not deleted), and when the delete fails
\* after a successful copy the call returns an error with the object
\* present at both the source key and the destination key.
C10_RenameFailureKeepsData ==
    last.op = "RenameFile" =>
        LET src == KeyOf(last.path)
            dst == KeyOf(last.path2)
        IN /\ last.err # Nil => last.note \in {"copy", "delete"}
           /\ last.note = "copy" => last.err # Nil /\ store = last.pre
           /\ last.note = "delete" =>
                 /\ last.err # Nil
                 /\ src \in DOMAIN last.pre
                 /\ src \in DOMAIN store
                 /\ dst \in DOMAIN store
                 /\ store[src] = last.pre[src]
                 /\ store[dst].content = last.pre[src].content

\* a RenameFile has just failed at its delete step, leaving the object at
\* both keys
C10_Witness ==
    /\ last.op = "RenameFile"
    /\ last.note = "delete"
    /\ last.err # Nil
    /\ KeyOf(last.path) # KeyOf(last.path2)
    /\ KeyOf(last.path2) \notin DOMAIN last.pre
    /\ KeyOf(last.path) \in DOMAIN store
    /\ KeyOf(last.path2) \in DOMAIN store

====
